---- MODULE Spec2Model ----
(***************************************************************************)
(* Model of the Rainforest EAGLE hub client (custom_components/            *)
(* rainforest_eagle3/eagle) and of the entity properties that read it.     *)
(*                                                                         *)
(* The hub posts XML commands to the gateway, tracks an online flag, and   *)
(* keeps a device table and a meter table, both keyed by hardware address. *)
(* One request is one step: a refresh cycle is the device-list request     *)
(* followed by one detail query per listed device, in list order.          *)
(*                                                                         *)
(* Optional values are sequences: <<>> is None, <<x>> is the value x.      *)
(* Strings the code parses are sequences of one-character strings.         *)
(***************************************************************************)
EXTENDS Integers, Sequences, FiniteSets, TLC

\* ------------------------------------------------------------------ bounds
\* Longest device list the gateway returns in the model.
MaxListLen == 2

\* ------------------------------------------------------------ python values
None == <<>>
Some(x) == <<x>>
\* None of a field whose values are plain strings.
NULL == "None"

DigitChars == <<"0", "1", "2", "3", "4", "5", "6", "7", "8", "9",
                "a", "b", "c", "d", "e", "f">>

UpperChars == <<"A", "B", "C", "D", "E", "F", "L", "R", "S", "T", "U">>
LowerChars == <<"a", "b", "c", "d", "e", "f", "l", "r", "s", "t", "u">>

\* str.lower() of one character (the upper-case letters the model uses).
LowerChar(c) ==
    IF \E i \in 1..Len(UpperChars) : UpperChars[i] = c
    THEN LowerChars[CHOOSE i \in 1..Len(UpperChars) : UpperChars[i] = c]
    ELSE c

Lower(s) == [i \in 1..Len(s) |-> LowerChar(s[i])]

DigitOf(c) == (CHOOSE i \in 1..Len(DigitChars) : DigitChars[i] = c) - 1

IsDigit(c, base) == \E i \in 1..base : DigitChars[i] = c

\* int(s, base) succeeds (unsigned digit strings; signs, blanks, underscores
\* and the 0x prefix are not produced by the model's gateway).
IsInt(s, base) == Len(s) > 0 /\ \A i \in 1..Len(s) : IsDigit(LowerChar(s[i]), base)

RECURSIVE ParseInt(_, _)
ParseInt(s, base) ==
    IF Len(s) = 0 THEN 0
    ELSE ParseInt(SubSeq(s, 1, Len(s) - 1), base) * base + DigitOf(LowerChar(s[Len(s)]))

\* float(s) succeeds and int(s) does not: digits, one point, digits.
IsFloat(s) ==
    \E p \in 1..Len(s) :
        /\ s[p] = "."
        /\ Len(s) > 1
        /\ \A i \in 1..Len(s) : i # p => IsDigit(s[i], 10)

\* ---------------------------------------------------------------- util.py
\* What xml_parse returns is a tree of mappings, lists, None and text: a
\* mapping is PyDict(f) with f a record, a list is PyList(s) with s a sequence.
PyNone == [t |-> "none"]
PyDict(f) == [t |-> "dict", d |-> f]
PyList(s) == [t |-> "list", l |-> s]

HasKey(value, key) == value.t = "dict" /\ key \in DOMAIN value.d

\* get_ensure_list(value, key)
get_ensure_list(value, key) ==
    IF value.t = "none" THEN <<>>
    ELSE LET v == IF HasKey(value, key) THEN value.d[key] ELSE value
         IN IF v.t = "list" THEN v.l ELSE <<v>>

\* --------------------------------------------------------------- model.py
\* Variable.validate_value: the coercion of a raw Value.
validate_value(raw) ==
    IF raw = None THEN [t |-> "none"]
    ELSE LET s == raw[1] IN
         IF Lower(s) \in {<<"t", "r", "u", "e">>, <<"f", "a", "l", "s", "e">>}
         THEN [t |-> "bool", b |-> (Len(s) > 0)]
         ELSE IF IsInt(s, 10) THEN [t |-> "int", i |-> ParseInt(s, 10)]
         ELSE IF IsFloat(s) THEN [t |-> "float", f |-> s]
         ELSE [t |-> "str", s |-> s]

Variable(raw) == [Name |-> raw.Name, Value |-> validate_value(raw.Value)]

\* Component.ensure_variables_list
ensure_variables_list(value) ==
    IF value.t = "list" THEN value.l ELSE get_ensure_list(value, "Variable")

\* Component validated from a tree: Some(component), or None when validation
\* raises (the entry is no mapping, or a required field is missing).
Component(x) ==
    IF x.t # "dict" THEN None
    ELSE LET data == IF HasKey(x, "Component") THEN x.d.Component ELSE x
         IN IF data.t # "dict" \/ ~({"Name", "FixedId", "Variables"} \subseteq DOMAIN data.d)
            THEN None
            ELSE LET vs == ensure_variables_list(data.d.Variables)
                 IN IF \E i \in 1..Len(vs) : ~HasKey(vs[i], "Name")
                    THEN None
                    ELSE Some([Name |-> data.d.Name, FixedId |-> data.d.FixedId,
                               Variables |-> [i \in 1..Len(vs) |-> Variable(vs[i].d)]])

\* EagleDevice.parse_last_contact: hex epoch seconds, None when it does not parse.
parse_last_contact(value) ==
    IF value = None THEN None
    ELSE IF IsInt(value[1], 16) THEN Some(ParseInt(value[1], 16))
    ELSE None

\* EagleDevice.unwrap_outer_dict: data.get("Device", data); PyNone stands for
\* the AttributeError of a value that is no mapping.
unwrap_outer_dict(data) ==
    IF data.t # "dict" THEN PyNone
    ELSE IF HasKey(data, "Device") THEN data.d.Device ELSE data

\* EagleDevice validated from a mapping. Name, Manufacturer and Protocol are
\* carried through untouched and read by no operation of the hub; they are left out.
EagleDevice(raw) ==
    [HardwareAddress |-> raw.HardwareAddress,
     ModelId |-> raw.ModelId,
     LastContact |-> parse_last_contact(raw.LastContact),
     ConnectionStatus |-> raw.ConnectionStatus,
     NetworkAddress |-> raw.NetworkAddress]

\* EagleDevice.model_validate of one device_list entry: Some(device), or None
\* when validation raises. Of a listed device the hub reads the address and
\* the model only.
EagleDevice_model_validate(x) ==
    LET data == unwrap_outer_dict(x)
    IN IF data.t = "dict" /\ {"HardwareAddress", "ModelId"} \subseteq DOMAIN data.d
       THEN Some([HardwareAddress |-> data.d.HardwareAddress, ModelId |-> data.d.ModelId])
       ELSE None

\* DeviceQueryResponse.ensure_components_list
ensure_components_list(value) ==
    IF value.t = "list" THEN value.l
    ELSE LET v == IF HasKey(value, "Component") THEN value.d.Component ELSE value
         IN IF v.t = "list" THEN v.l ELSE <<v>>

\* DeviceQueryResponse.model_validate: Some(response), or None when it raises.
DeviceQueryResponse(x) ==
    IF ~(HasKey(x, "DeviceDetails") /\ HasKey(x, "Components")) THEN None
    ELSE LET cs == ensure_components_list(x.d.Components)
             parsed == [i \in 1..Len(cs) |-> Component(cs[i])]
         IN IF \E i \in 1..Len(cs) : parsed[i] = None
            THEN None
            ELSE Some([DeviceDetails |-> EagleDevice(unwrap_outer_dict(x.d.DeviceDetails).d),
                       Components |-> [i \in 1..Len(cs) |-> parsed[i][1]]])

\* DeviceQueryResponse.to_device(): the device record the hub stores, built
\* from the response alone (its DeviceDetails fields and its Components).
to_device(response) ==
    [HardwareAddress |-> response.DeviceDetails.HardwareAddress,
     ModelId |-> response.DeviceDetails.ModelId,
     LastContact |-> response.DeviceDetails.LastContact,
     ConnectionStatus |-> response.DeviceDetails.ConnectionStatus,
     NetworkAddress |-> response.DeviceDetails.NetworkAddress,
     Components |-> response.Components]

\* ------------------------------------------------------ what the gateway sends
Addrs == {"addr-1", "addr-2"}
ModelIds == {"electric_meter", "other"}

VarDemand == "zigbee:InstantaneousDemand"
VarDelivered == "zigbee:CurrentSummationDelivered"
VarNames == {VarDemand, VarDelivered}

\* Entries of a device_list response (address and model are all the hub reads).
ListEntries == [HardwareAddress : Addrs, ModelId : ModelIds]

RECURSIVE SeqsUpTo(_, _)
SeqsUpTo(S, n) ==
    IF n = 0 THEN {<<>>}
    ELSE LET shorter == SeqsUpTo(S, n - 1)
         IN shorter \cup {Append(q, x) : q \in {r \in shorter : Len(r) = n - 1}, x \in S}

\* HardwareAddress is the identity of a device: a device_list response names
\* each device once.
DeviceLists ==
    {l \in SeqsUpTo(ListEntries, MaxListLen) :
        \A i, j \in 1..Len(l) : i # j => l[i].HardwareAddress # l[j].HardwareAddress}

\* The three fields a bare device_details shape omits, and two full shapes.
ConnShapes ==
    {[ConnectionStatus |-> NULL, LastContact |-> None, NetworkAddress |-> NULL],
     [ConnectionStatus |-> "Connected", LastContact |-> Some(<<"1", "a">>),
      NetworkAddress |-> "0x0001"],
     [ConnectionStatus |-> "Not Connected", LastContact |-> Some(<<"2", "B">>),
      NetworkAddress |-> "0x0002"]}

\* The components of a response document: none, or one component with one
\* or two variables; the raw values are a number, text, a boolean word, a
\* decimal fraction, and none.
RawComponentChoices ==
    {<<>>,
     <<[Name |-> "Main", FixedId |-> "all",
        Variables |-> <<[Name |-> VarDemand, Value |-> Some(<<"3", ".", "5">>)],
                        [Name |-> VarDelivered, Value |-> Some(<<"F", "a", "l", "s", "e">>)]>>]>>,
     <<[Name |-> "Main", FixedId |-> "all",
        Variables |-> <<[Name |-> VarDemand, Value |-> Some(<<"4", "2">>)]>>]>>,
     <<[Name |-> "Main", FixedId |-> "all",
        Variables |-> <<[Name |-> VarDemand, Value |-> None],
                        [Name |-> VarDelivered, Value |-> Some(<<"o", "n">>)]>>]>>}

BaseShape ==
    [ConnectionStatus |-> "Connected", LastContact |-> Some(<<"1", "a">>),
     NetworkAddress |-> "0x0001"]

BaseComponents ==
    <<[Name |-> "Main", FixedId |-> "all",
       Variables |-> <<[Name |-> VarDemand, Value |-> Some(<<"4", "2">>)]>>]>>

RawResponse(a, m, c, k) ==
    [DeviceDetails |-> [HardwareAddress |-> a, ModelId |-> m,
                        ConnectionStatus |-> c.ConnectionStatus,
                        LastContact |-> c.LastContact,
                        NetworkAddress |-> c.NetworkAddress],
     Components |-> k]

\* Well-formed device_query response bodies for a query about `device`: the
\* gateway echoes the address and model and varies the connection fields or
\* the components, or it answers with another address, or another model.
QueryResponsesFor(device) ==
    {RawResponse(device.HardwareAddress, device.ModelId, c, BaseComponents) : c \in ConnShapes}
    \cup {RawResponse(device.HardwareAddress, device.ModelId, BaseShape, k) :
            k \in RawComponentChoices}
    \cup {RawResponse(a, device.ModelId, BaseShape, BaseComponents) : a \in Addrs}
    \cup {RawResponse(device.HardwareAddress, m, BaseShape, BaseComponents) : m \in ModelIds}

QueryResponses == UNION {QueryResponsesFor(d) : d \in ListEntries}

\* xml_parse renders the children of one tag by their number: no child gives
\* None, one child a mapping holding the child, several a mapping holding
\* their list.
xml_device_list(l) ==
    PyDict([DeviceList |->
        IF Len(l) = 0 THEN PyNone
        ELSE IF Len(l) = 1 THEN PyDict([Device |-> PyDict(l[1])])
        ELSE PyDict([Device |-> PyList([i \in 1..Len(l) |-> PyDict(l[i])])])])

xml_variables(vs) ==
    IF Len(vs) = 0 THEN PyNone
    ELSE IF Len(vs) = 1 THEN PyDict([Variable |-> PyDict(vs[1])])
    ELSE PyDict([Variable |-> PyList([i \in 1..Len(vs) |-> PyDict(vs[i])])])

xml_component(c) ==
    PyDict([Name |-> c.Name, FixedId |-> c.FixedId, Variables |-> xml_variables(c.Variables)])

xml_components(k) ==
    IF Len(k) = 0 THEN PyNone
    ELSE IF Len(k) = 1 THEN PyDict([Component |-> xml_component(k[1])])
    ELSE PyDict([Component |-> PyList([i \in 1..Len(k) |-> xml_component(k[i])])])

\* The parsed body of a device_query response document.
xml_query(raw) ==
    PyDict([Device |-> PyDict([DeviceDetails |-> PyDict(raw.DeviceDetails),
                               Components |-> xml_components(raw.Components)])])

\* The parsed bodies of the device_list responses.
ListBodies == {xml_device_list(l) : l \in DeviceLists}

\* How one POST ends.
\*   ok              2xx response, body read and parsed
\*   malformed       2xx response, body read, parsing or validation raises
\*   status          non-2xx status: raise_for_status raises
\*   read_timeout    timeout while the body is read
\*   connect_error   connection refused / DNS failure: no response arrives
\*   connect_timeout timeout before a response arrives
\*   cancelled       the caller's time budget cancels the task at the await
Outcomes == {"ok", "malformed", "status", "read_timeout",
             "connect_error", "connect_timeout", "cancelled"}

\* --------------------------------------------------------------- meter.py
\* ElectricityMeter(hub=..., address=...): a handle holding the address only.
ElectricityMeter(address, oid) == [address |-> address, oid |-> oid]

RECURSIVE AllVariables(_)
AllVariables(components) ==
    IF Len(components) = 0 THEN <<>>
    ELSE components[1].Variables \o AllVariables(Tail(components))

\* Mutant of get_variable: the name is not compared.
get_variable_any(components, key) ==
    IF Len(AllVariables(components)) = 0 THEN None
    ELSE Some(AllVariables(components)[1])

\* get_variable: the first variable of that name in component order;
\* None stands for the KeyError it raises when there is none.
get_variable(components, key) ==
    LET vs == AllVariables(components)
        hits == {i \in 1..Len(vs) : vs[i].Name = key}
    IN IF hits = {} THEN None
       ELSE Some(vs[CHOOSE i \in hits : \A j \in hits : i <= j])

\* ----------------------------------------------------------------- hub.py
VARIABLES
    online,       \* EagleHub.online
    closed,       \* the client session has been closed
    devices,      \* EagleHub.devices: address -> device record
    meters,       \* EagleHub.meters: address -> meter object
    nextOid,      \* identity of the next meter object constructed
    pc,           \* "idle", or "loop" inside the for loop of async_refresh_devices
    cycleList,    \* the device list of the refresh cycle
    idx,          \* position of the loop in cycleList; after a cycle that a
                  \* query failure ended, the position of that query; else 0
    unqueried,    \* devices of the list after that position, never queried
    result,       \* what the last operation raised ("none": it returned; "running")
    repeat,       \* the cycle lists only devices and meters the tables already hold
    startedEmpty, \* the cycle began on empty tables and nothing touched them since
    resps,        \* the query responses of a cycle that started empty, in list order
    phase,        \* where the coordinator is: "created", "setup", "setup_failed",
                  \* "ready", "poll", "polled"
    reported,     \* what the coordinator's last call raised ("none": it returned)
    coordinator_data \* coordinator.data: what _async_update_data returned last

hubVars == <<online, closed, devices, meters, nextOid, pc, cycleList, idx, unqueried,
             result, repeat, startedEmpty, resps>>

coordVars == <<phase, reported, coordinator_data>>

vars == <<hubVars, coordVars>>

\* Mutant of post_online: the success branch never raises the flag.
post_online_no_up(on, outcome) ==
    IF outcome \in {"status", "read_timeout"} THEN FALSE ELSE on

\* _post: the online flag after the request. The try block encloses reading
\* the body and raise_for_status; the request itself (session.post entered by
\* async with) is outside it, and CancelledError is no Exception.
post_online(on, outcome) ==
    IF outcome \in {"status", "read_timeout"} THEN FALSE
    ELSE IF outcome \in {"ok", "malformed"} THEN TRUE
    ELSE on

\* What async_execute_command raises to its caller ("none": it returns).
post_raises(outcome) ==
    CASE outcome = "ok" -> "none"
      [] outcome = "malformed" -> "ParseError"
      [] outcome = "status" -> "ClientResponseError"
      [] outcome = "read_timeout" -> "TimeoutError"
      [] outcome = "connect_error" -> "ClientConnectorError"
      [] outcome = "connect_timeout" -> "TimeoutError"
      [] outcome = "cancelled" -> "CancelledError"

\* _async_get_device_list on a parsed response: Some(list of devices), or
\* None when the validation of an entry raises.
get_device_list(response) ==
    LET items == get_ensure_list(response, "DeviceList")
        parsed == [i \in 1..Len(items) |-> EagleDevice_model_validate(items[i])]
    IN IF \E i \in 1..Len(items) : parsed[i] = None
       THEN None
       ELSE Some([i \in 1..Len(items) |-> parsed[i][1]])

\* async_query_device on a parsed response: Some(device record), or None
\* when the validation raises.
query_device(response) ==
    LET r == DeviceQueryResponse(unwrap_outer_dict(response))
    IN IF r = None THEN None ELSE Some(to_device(r[1]))

\* The two conversions over every document the gateway sends, tabulated.
ListResults == [body \in ListBodies |-> get_device_list(body)]

QueryResults == [raw \in QueryResponses |-> query_device(xml_query(raw))]

\* _async_get_device_list for a request that ends with `outcome`: what it
\* raises ("none": it returns) and the list it returns.
async_get_device_list(outcome, body) ==
    IF post_raises(outcome) # "none" THEN [raises |-> post_raises(outcome)]
    ELSE LET got == ListResults[body]
         IN IF got = None THEN [raises |-> "ValidationError"]
            ELSE [raises |-> "none", list |-> got[1]]

\* async_query_device for a request that ends with `outcome` and carries the
\* document `raw`: what it raises ("none": it returns) and the record it returns.
async_query_device(outcome, raw) ==
    IF post_raises(outcome) # "none" THEN [raises |-> post_raises(outcome)]
    ELSE LET got == QueryResults[raw]
         IN IF got = None THEN [raises |-> "ValidationError"]
            ELSE [raises |-> "none", device |-> got[1]]

query_raises(outcome, raw) == async_query_device(outcome, raw).raises

\* Mutant of refresh_wrap: one except clause for everything.
refresh_wrap_untyped(exc) ==
    IF exc = "CancelledError" THEN "CancelledError" ELSE "ConnectionError"

\* The except clauses of async_refresh_devices.
refresh_wrap(exc) ==
    IF exc = "TimeoutError" THEN "TimeoutError"
    ELSE IF exc = "CancelledError" THEN "CancelledError"
    ELSE "ConnectionError"

\* A closed session refuses every request before anything is sent.
OutcomesNow == IF closed THEN {"connect_error"} ELSE Outcomes

\* Mutant of store_device: the table is rebuilt from the devices of the cycle.
store_device_rebuilt(devs, device, res) ==
    [a \in {device.HardwareAddress} |-> res]

\* Mutant of store_device: the record is filed under the address it carries.
store_device_by_response(devs, device, res) ==
    [a \in DOMAIN devs \cup {res.HardwareAddress} |->
        IF a = res.HardwareAddress THEN res ELSE devs[a]]

\* self.devices[device.HardwareAddress] = <query result>
store_device(devs, device, res) ==
    [a \in DOMAIN devs \cup {device.HardwareAddress} |->
        IF a = device.HardwareAddress THEN res ELSE devs[a]]

\* Mutant of register_meter: a listed meter gets a new object every cycle.
register_meter_always(mtrs, device, oid) ==
    IF device.ModelId = "electric_meter"
    THEN [a \in DOMAIN mtrs \cup {device.HardwareAddress} |->
            IF a = device.HardwareAddress
            THEN [address |-> device.HardwareAddress, oid |-> oid] ELSE mtrs[a]]
    ELSE mtrs

\* Meter discovery: register an electric meter the table does not hold yet.
register_meter(mtrs, device, oid) ==
    IF device.ModelId = "electric_meter" /\ device.HardwareAddress \notin DOMAIN mtrs
    THEN [a \in DOMAIN mtrs \cup {device.HardwareAddress} |->
            IF a = device.HardwareAddress
            THEN ElectricityMeter(device.HardwareAddress, oid) ELSE mtrs[a]]
    ELSE mtrs

\* Every listed device is in the device table, every listed meter in the
\* meter table, and a meter is listed: what a completed cycle over the same
\* list leaves behind.
AllKnown(list) ==
    /\ \A i \in 1..Len(list) :
          /\ list[i].HardwareAddress \in DOMAIN devices
          /\ list[i].ModelId = "electric_meter" => list[i].HardwareAddress \in DOMAIN meters
    /\ \E i \in 1..Len(list) : list[i].ModelId = "electric_meter"

\* A failed request carries no response body: one stand-in is drawn for it.
NoBody == RawResponse("addr-1", "other", BaseShape, <<>>)

BodiesFor(outcome, device) ==
    IF outcome = "ok" THEN QueryResponsesFor(device) ELSE {NoBody}

NoListBody == xml_device_list(<<>>)

ListBodiesFor(outcome) == IF outcome = "ok" THEN ListBodies ELSE {NoListBody}

Init ==
    /\ online = FALSE
    /\ closed = FALSE
    /\ devices = <<>>
    /\ meters = <<>>
    /\ nextOid = 1
    /\ pc = "idle"
    /\ cycleList = <<>>
    /\ idx = 0
    /\ unqueried = 0
    /\ result = "none"
    /\ repeat = FALSE
    /\ startedEmpty = FALSE
    /\ resps = <<>>
    /\ phase = "created"
    /\ reported = "none"
    /\ coordinator_data = None

\* The bookkeeping about the last refresh cycle is dropped by the next operation.
ForgetCycle ==
    /\ cycleList' = <<>>
    /\ idx' = 0
    /\ unqueried' = 0
    /\ startedEmpty' = FALSE
    /\ resps' = <<>>

\* async_execute_command issued on its own.
ExecuteCommand(outcome) ==
    /\ pc = "idle"
    /\ outcome \in OutcomesNow
    /\ online' = post_online(online, outcome)
    /\ result' = post_raises(outcome)
    /\ ForgetCycle
    /\ UNCHANGED <<closed, devices, meters, nextOid, pc, repeat>>

\* close()
Close ==
    /\ pc = "idle"
    /\ ~closed
    /\ online' = FALSE
    /\ closed' = TRUE
    /\ result' = "none"
    /\ ForgetCycle
    /\ UNCHANGED <<devices, meters, nextOid, pc, repeat>>

\* The for loop of async_refresh_devices is entered with this list.
StartCycle(list) ==
    /\ cycleList' = list
    /\ repeat' = (Len(list) > 0 /\ AllKnown(list))
    /\ startedEmpty' = (DOMAIN devices = {} /\ DOMAIN meters = {})
    /\ resps' = <<>>
    /\ unqueried' = 0
    /\ IF Len(list) = 0
       THEN pc' = "idle" /\ idx' = 0 /\ result' = "none"
       ELSE pc' = "loop" /\ idx' = 1 /\ result' = "running"

\* async_refresh_devices(None) up to the loop: the device_list request and
\* the validation of its entries.
FetchList(outcome, body) ==
    /\ pc = "idle"
    /\ outcome \in OutcomesNow
    /\ online' = post_online(online, outcome)
    /\ LET got == async_get_device_list(outcome, body)
       IN IF got.raises = "none"
          THEN StartCycle(got.list)
          ELSE /\ result' = refresh_wrap(got.raises)
               /\ pc' = "idle"
               /\ repeat' = FALSE
               /\ ForgetCycle
    /\ UNCHANGED <<closed, devices, meters, nextOid>>

\* async_refresh_devices(devices) with a list the caller supplies: no
\* device_list request is made.
RefreshDevicesGiven(list) ==
    /\ pc = "idle"
    /\ StartCycle(list)
    /\ UNCHANGED <<online, closed, devices, meters, nextOid>>

\* Mutant of QueryStep: a failed query is logged and the loop goes on.
QueryStep_continue(outcome, raw) ==
    /\ pc = "loop"
    /\ outcome \in OutcomesNow
    /\ raw \in BodiesFor(outcome, cycleList[idx])
    /\ online' = post_online(online, outcome)
    /\ IF query_raises(outcome, raw) = "none"
       THEN /\ devices' = store_device(devices, cycleList[idx], async_query_device(outcome, raw).device)
            /\ meters' = register_meter(meters, cycleList[idx], nextOid)
            /\ nextOid' = IF meters' = meters THEN nextOid ELSE nextOid + 1
            /\ resps' = IF startedEmpty THEN Append(resps, raw) ELSE <<>>
       ELSE /\ resps' = <<>>
            /\ UNCHANGED <<devices, meters, nextOid>>
    /\ startedEmpty' = (startedEmpty /\ query_raises(outcome, raw) = "none")
    /\ IF idx = Len(cycleList)
       THEN /\ pc' = "idle"
            /\ result' = "none"
            /\ idx' = 0
            /\ repeat' = FALSE
            /\ cycleList' = IF startedEmpty' THEN cycleList ELSE <<>>
       ELSE /\ pc' = "loop"
            /\ result' = "running"
            /\ idx' = idx + 1
            /\ UNCHANGED <<repeat, cycleList>>
    /\ UNCHANGED <<closed, unqueried>>

\* Mutant of QueryStep: a failed query undoes the tables.
QueryStep_rollback(outcome, raw) ==
    /\ pc = "loop"
    /\ outcome \in OutcomesNow
    /\ raw \in BodiesFor(outcome, cycleList[idx])
    /\ LET device == cycleList[idx]
           got == async_query_device(outcome, raw)
       IN /\ online' = post_online(online, outcome)
          /\ IF got.raises = "none"
             THEN /\ devices' = store_device(devices, device, got.device)
                  /\ meters' = register_meter(meters, device, nextOid)
                  /\ nextOid' = IF meters' = meters THEN nextOid ELSE nextOid + 1
                  /\ resps' = IF startedEmpty THEN Append(resps, raw) ELSE <<>>
                  /\ IF idx = Len(cycleList)
                     THEN /\ pc' = "idle"
                          /\ result' = "none"
                          /\ idx' = 0
                          /\ repeat' = FALSE
                          /\ cycleList' = IF startedEmpty THEN cycleList ELSE <<>>
                     ELSE /\ pc' = "loop"
                          /\ result' = "running"
                          /\ idx' = idx + 1
                          /\ UNCHANGED <<repeat, cycleList>>
                  /\ UNCHANGED <<startedEmpty, unqueried>>
             ELSE /\ pc' = "idle"
                  /\ result' = refresh_wrap(got.raises)
                  /\ idx' = idx
                  /\ unqueried' = Len(cycleList) - idx
                  /\ repeat' = FALSE
                  /\ cycleList' = <<>>
                  /\ startedEmpty' = FALSE
                  /\ resps' = <<>>
                  /\ devices' = <<>>
                  /\ meters' = <<>>
                  /\ UNCHANGED nextOid
    /\ UNCHANGED closed

\* One pass of the for loop: the device_query for cycleList[idx], the store,
\* the meter discovery; an exception leaves the loop through the except clauses.
QueryStep(outcome, raw) ==
    /\ pc = "loop"
    /\ outcome \in OutcomesNow
    /\ raw \in BodiesFor(outcome, cycleList[idx])
    /\ LET device == cycleList[idx]
           got == async_query_device(outcome, raw)
       IN /\ online' = post_online(online, outcome)
          /\ IF got.raises = "none"
             THEN /\ devices' = store_device(devices, device, got.device)
                  /\ meters' = register_meter(meters, device, nextOid)
                  /\ nextOid' = IF meters' = meters THEN nextOid ELSE nextOid + 1
                  /\ resps' = IF startedEmpty THEN Append(resps, raw) ELSE <<>>
                  /\ IF idx = Len(cycleList)
                     THEN /\ pc' = "idle"
                          /\ result' = "none"
                          /\ idx' = 0
                          /\ repeat' = FALSE
                          /\ cycleList' = IF startedEmpty THEN cycleList ELSE <<>>
                     ELSE /\ pc' = "loop"
                          /\ result' = "running"
                          /\ idx' = idx + 1
                          /\ UNCHANGED <<repeat, cycleList>>
                  /\ UNCHANGED <<startedEmpty, unqueried>>
             ELSE /\ pc' = "idle"
                  /\ result' = refresh_wrap(got.raises)
                  /\ idx' = idx
                  /\ unqueried' = Len(cycleList) - idx
                  /\ repeat' = FALSE
                  /\ cycleList' = <<>>
                  /\ startedEmpty' = FALSE
                  /\ resps' = <<>>
                  /\ UNCHANGED <<devices, meters, nextOid>>
    /\ UNCHANGED closed

\* async_refresh_device(address)
RefreshDevice(address, outcome, raw) ==
    /\ pc = "idle"
    /\ IF address \in DOMAIN devices
       THEN /\ outcome \in OutcomesNow
            /\ raw \in BodiesFor(outcome, devices[address])
            /\ online' = post_online(online, outcome)
            /\ LET got == async_query_device(outcome, raw)
               IN /\ result' = got.raises
                  /\ IF got.raises = "none"
                     THEN devices' = [devices EXCEPT ![address] = got.device]
                     ELSE devices' = devices
       ELSE /\ outcome = "ok"
            /\ raw = NoBody
            /\ result' = "none"
            /\ UNCHANGED <<online, devices>>
    /\ ForgetCycle
    /\ UNCHANGED <<closed, meters, nextOid, pc, repeat>>

\* The operations of the hub, called directly.
Next ==
    \/ \E o \in Outcomes : ExecuteCommand(o) /\ UNCHANGED coordVars
    \/ Close /\ UNCHANGED coordVars
    \/ \E o \in Outcomes : \E b \in ListBodiesFor(o) : FetchList(o, b) /\ UNCHANGED coordVars
    \/ \E l \in DeviceLists : RefreshDevicesGiven(l) /\ UNCHANGED coordVars
    \/ /\ pc = "loop"
       /\ \E o \in Outcomes : \E r \in BodiesFor(o, cycleList[idx]) : QueryStep(o, r)
       /\ UNCHANGED coordVars
    \/ /\ \E a \in Addrs, o \in Outcomes :
             \E r \in (IF a \in DOMAIN devices THEN BodiesFor(o, devices[a]) ELSE {NoBody}) :
                 RefreshDevice(a, o, r)
       /\ UNCHANGED coordVars

Spec == Init /\ [][Next]_vars

\* ---------------------------------------------------------- coordinator.py
CloudId == "0012ab"

\* async_timeout.timeout: the cancellation its expiry causes leaves the
\* block as TimeoutError.
timeout_raises(exc) == IF exc = "CancelledError" THEN "TimeoutError" ELSE exc

\* _async_setup: what it raises, given what the refresh cycle raised.
async_setup_raises(exc) ==
    IF timeout_raises(exc) = "none" THEN "none" ELSE "ConfigEntryAuthFailed"

\* Mutant of async_update_data_raises: the wrapper of _async_setup is used.
async_update_data_raises_as_setup(exc) ==
    IF timeout_raises(exc) = "none" THEN "none" ELSE "ConfigEntryAuthFailed"

\* _async_update_data: what it raises, given what the refresh cycle raised.
async_update_data_raises(exc) ==
    IF timeout_raises(exc) = "none" THEN "none" ELSE "UpdateFailed"

\* Eagle3DeviceData(cloud_id=..., meters=hub.meters, devices=hub.devices)
Eagle3DeviceData(devs, mtrs) == [cloud_id |-> CloudId, meters |-> mtrs, devices |-> devs]

\* The end of a step of the cycle _async_setup awaits.
SetupReport ==
    IF pc' = "loop"
    THEN phase' = "setup" /\ reported' = "running" /\ coordinator_data' = coordinator_data
    ELSE /\ reported' = async_setup_raises(result')
         /\ phase' = IF reported' = "none" THEN "ready" ELSE "setup_failed"
         /\ coordinator_data' = coordinator_data

\* The end of a step of the cycle _async_update_data awaits.
UpdateReport ==
    IF pc' = "loop"
    THEN phase' = "poll" /\ reported' = "running" /\ coordinator_data' = coordinator_data
    ELSE /\ reported' = async_update_data_raises(result')
         /\ phase' = "polled"
         /\ coordinator_data' = IF reported' = "none"
                                THEN Some(Eagle3DeviceData(devices', meters'))
                                ELSE coordinator_data

\* _async_setup: the first refresh cycle.
AsyncSetup ==
    /\ \/ /\ phase = "created"
          /\ \E o \in Outcomes : \E b \in ListBodiesFor(o) : FetchList(o, b)
       \/ /\ phase = "setup"
          /\ \E o \in Outcomes : \E r \in BodiesFor(o, cycleList[idx]) : QueryStep(o, r)
    /\ SetupReport

\* _async_update_data: a poll, once setup has returned.
AsyncUpdateData ==
    /\ \/ /\ phase \in {"ready", "polled"}
          /\ \E o \in Outcomes : \E b \in ListBodiesFor(o) : FetchList(o, b)
       \/ /\ phase = "poll"
          /\ \E o \in Outcomes : \E r \in BodiesFor(o, cycleList[idx]) : QueryStep(o, r)
    /\ UpdateReport

CoordNext == AsyncSetup \/ AsyncUpdateData

\* The hub as the coordinator drives it.
CoordSpec == Init /\ [][CoordNext]_vars

\* ------------------------------------------------ views of a registered meter
\* ElectricityMeter.device: the record the hub's device table holds now under
\* the meter's address.
meter_device(m) == devices[m.address]

hardware_address(m) == meter_device(m).HardwareAddress

last_contact(m) == meter_device(m).LastContact

\* Mutant of components: the list the meter object was constructed with.
components_snapshot(m) == <<>>

connection_status(m) == meter_device(m).ConnectionStatus

components(m) == meter_device(m).Components

\* ElectricityMeter.get_variable on a registered meter: the variable it
\* returns, or the KeyError it raises with the text of its message (the
\* requested name and the meter's hardware_address).
ElectricityMeter_get_variable(m, key) ==
    LET found == get_variable(components(m), key)
    IN IF found = None
       THEN [raises |-> "KeyError", key |-> key, meter |-> hardware_address(m)]
       ELSE [raises |-> "none", returns |-> found[1]]

\* Mutant of Eagle3EnergySensor_available: the hub's flag is not consulted.
Eagle3EnergySensor_available_ungated(k) ==
    connection_status(meters[k]) = "Connected"

\* ------------------------------------------- sensor.py and binary_sensor.py
\* One entity of each class exists per meter of coordinator.data.meters,
\* which is the hub's meter table itself (coordinator.py hands it over).
Eagle3EnergySensor_available(k) ==
    online /\ connection_status(meters[k]) = "Connected"

Eagle3DeviceSensor_available(k) ==
    online /\ connection_status(meters[k]) = "Connected"

EagleDeviceConnectivitySensor_available(k) ==
    online /\ \E j \in DOMAIN meters : meters[j] = meters[k]

EagleDeviceConnectivitySensor_is_on(k) ==
    online /\ meter_device(meters[k]).ConnectionStatus = "Connected"

\* ------------------------------------------------------------------ claims
Failures == Outcomes \ {"ok", "malformed", "cancelled"}

Timeouts == {"read_timeout", "connect_timeout"}

\* A request with this outcome is made in the step.
RequestWith(o) ==
    /\ online' = post_online(online, o)
    /\ \/ ExecuteCommand(o)
       \/ \E b \in ListBodiesFor(o) : FetchList(o, b)
       \/ /\ pc = "loop"
          /\ \E r \in BodiesFor(o, cycleList[idx]) : QueryStep(o, r)
       \/ \E a \in DOMAIN devices : \E r \in BodiesFor(o, devices[a]) : RefreshDevice(a, o, r)

\* async_refresh_device for an address the table does not hold: no request.
NoRequestRefresh == \E a \in Addrs \ DOMAIN devices : RefreshDevice(a, "ok", NoBody)

\* C1: whenever the hub is online and a request through execute_command
\* fails by timeout, by a connection error before a response arrives, or by
\* a non-2xx status, online is False afterwards and the failure is raised
\* to the caller.
C1_FailedRequestGoesOffline ==
    [][\A o \in Failures :
          (online /\ ExecuteCommand(o)) =>
              (~online' /\ result' = post_raises(o) /\ result' # "none")]_vars

\* C2: a new hub is offline; after a request that completes without a
\* transport or status error online is True; online turns True in no other step.
C2_OnlineOnlyBySuccess ==
    /\ ~online
    /\ [][/\ online' \/ ~(\E o \in {"ok", "malformed"} : RequestWith(o))
          /\ (~online /\ online') =>
                ~(\/ \E o \in Outcomes \ {"ok", "malformed"} : RequestWith(o)
                  \/ Close
                  \/ NoRequestRefresh)]_vars

C2_Witness == online /\ result = "none" /\ pc = "idle" /\ DOMAIN devices = {}

C4_MetersSubsetOfDevices == DOMAIN meters \subseteq DOMAIN devices

C4_Witness ==
    /\ pc = "idle"
    /\ result = "ConnectionError"
    /\ idx = 2
    /\ DOMAIN meters # {}

\* A detail response without ConnectionStatus, LastContact and NetworkAddress.
IsBare(raw) ==
    /\ raw.DeviceDetails.ConnectionStatus = NULL
    /\ raw.DeviceDetails.LastContact = None
    /\ raw.DeviceDetails.NetworkAddress = NULL

\* C5: merging a detail response that lacks ConnectionStatus, LastContact
\* and NetworkAddress for a device already in the table leaves the stored
\* values of those three fields unchanged.
C5_BareResponseKeepsFields ==
    [][\A a \in DOMAIN devices : \A raw \in {r \in QueryResponses : IsBare(r)} :
          (\/ RefreshDevice(a, "ok", raw)
           \/ (pc = "loop" /\ cycleList[idx].HardwareAddress = a /\ QueryStep("ok", raw)))
          => /\ devices'[a].ConnectionStatus = devices[a].ConnectionStatus
             /\ devices'[a].LastContact = devices[a].LastContact
             /\ devices'[a].NetworkAddress = devices[a].NetworkAddress]_vars

\* C6: a cycle over a list whose devices and meters an earlier cycle already
\* put in the tables adds no meter-table key and replaces no meter object,
\* every listed meter has its one entry, and the device record is updated.
C6_RediscoveryIdempotent ==
    [][(pc = "loop" /\ repeat) =>
          /\ meters' = meters
          /\ \A i \in 1..Len(cycleList) :
                cycleList[i].ModelId = "electric_meter" =>
                    /\ cycleList[i].HardwareAddress \in DOMAIN meters'
                    /\ meters'[cycleList[i].HardwareAddress].address = cycleList[i].HardwareAddress
          /\ \A raw \in {r \in QueryResponsesFor(cycleList[idx]) : query_raises("ok", r) = "none"} :
                QueryStep("ok", raw) =>
                    devices'[cycleList[idx].HardwareAddress] = async_query_device("ok", raw).device]_vars

C6_Witness == pc = "loop" /\ repeat /\ idx = 2 /\ nextOid > 1

C8_ListFailureAbortsCycle ==
    [][\A o \in Failures \cup {"malformed"} :
          FetchList(o, NoListBody)
          => /\ result' = (IF o \in Timeouts THEN "TimeoutError" ELSE "ConnectionError")
             /\ pc' = "idle"
             /\ devices' = devices
             /\ meters' = meters]_vars

C8_Witness ==
    /\ pc = "idle"
    /\ result = "TimeoutError"
    /\ idx = 0
    /\ DOMAIN devices # {}
    /\ DOMAIN meters # {}

RECURSIVE RawVariables(_)
RawVariables(rawComponents) ==
    IF Len(rawComponents) = 0 THEN <<>>
    ELSE rawComponents[1].Variables \o RawVariables(Tail(rawComponents))

Carried(raw, name) ==
    LET vs == RawVariables(raw.Components)
        hits == {i \in 1..Len(vs) : vs[i].Name = name}
    IN IF hits = {} THEN None
       ELSE LET v == vs[CHOOSE i \in hits : \A j \in hits : i <= j]
            IN Some([Name |-> name, Value |-> validate_value(v.Value)])

ListAddrs(list) == {list[i].HardwareAddress : i \in 1..Len(list)}

ListMeters(list) ==
    {list[i].HardwareAddress : i \in {j \in 1..Len(list) : list[j].ModelId = "electric_meter"}}

\* C10: after one refresh_devices() on a new hub, given a device list and a
\* successful query response for each device, the device table has exactly
\* the listed keys, the meter table exactly the keys of the listed electric
\* meters, and get_variable on each meter returns the variable its response carried.
C10_EndToEnd ==
    (pc = "idle" /\ startedEmpty /\ result = "none") =>
        /\ DOMAIN devices = ListAddrs(cycleList)
        /\ DOMAIN meters = ListMeters(cycleList)
        /\ \A i \in 1..Len(cycleList) :
              cycleList[i].ModelId = "electric_meter" =>
                  \A name \in VarNames :
                      get_variable(components(meters[cycleList[i].HardwareAddress]), name)
                          = Carried(resps[i], name)

C10_Witness ==
    /\ pc = "idle"
    /\ startedEmpty
    /\ result = "none"
    /\ Len(cycleList) = 2
    /\ cycleList[1].ModelId = "electric_meter"
    /\ cycleList[2].ModelId = "other"
    /\ get_variable(components(meters[cycleList[1].HardwareAddress]), VarDemand)
          = Some([Name |-> VarDemand, Value |-> [t |-> "int", i |-> 42]])

\* C10 as stated: a cycle on a new hub whose device_list response names the
\* devices l runs over l, and ends with exactly the listed device keys, the
\* listed electric meters, and the variables the responses carried.
C10_FromListResponse ==
    /\ []C10_EndToEnd
    /\ [][\A l \in DeviceLists :
             (DOMAIN devices = {} /\ FetchList("ok", xml_device_list(l)))
             => (cycleList' = l /\ startedEmpty' /\ result' # "ConnectionError")]_vars

\* C11: normalising a repeating field gives a list of length 1 for a parent
\* mapping holding one occurrence, the N elements for one holding N, and the
\* empty list for a parent mapping without the key; and a refresh cycle whose
\* device_list response names the devices l gets exactly the list l.
C11_ListNormalization ==
    [][(\E b \in ListBodies : FetchList("ok", b)) =>
          /\ \A e \in ListEntries :
                get_ensure_list(PyDict([Device |-> PyDict(e)]), "Device") = <<PyDict(e)>>
          /\ \A l \in DeviceLists :
                Len(l) > 1 =>
                    get_ensure_list(PyDict([Device |-> PyList([i \in 1..Len(l) |-> PyDict(l[i])])]),
                                    "Device")
                        = [i \in 1..Len(l) |-> PyDict(l[i])]
          /\ \A e \in ListEntries :
                get_ensure_list(PyDict([Other |-> PyDict(e)]), "Device") = <<>>
          /\ \A l \in DeviceLists :
                FetchList("ok", xml_device_list(l))
                => (cycleList' = l /\ result' \in {"none", "running"})]_vars

\* C12: a failure of the cycle _async_setup awaits (the first refresh) is
\* raised as ConfigEntryAuthFailed; a failure of a later poll, a timeout
\* included, is raised as UpdateFailed and never as ConfigEntryAuthFailed; a
\* poll that succeeds returns cloud_id with the hub's device and meter tables.
C12_FailureKinds ==
    /\ [][(phase \in {"created", "setup"} /\ pc' = "idle") =>
            IF result' = "none"
            THEN phase' = "ready" /\ reported' = "none"
            ELSE phase' = "setup_failed" /\ reported' = "ConfigEntryAuthFailed"]_vars
    /\ [][(phase \in {"ready", "poll", "polled"} /\ pc' = "idle") =>
            /\ reported' # "ConfigEntryAuthFailed"
            /\ IF result' = "none"
               THEN /\ reported' = "none"
                    /\ coordinator_data' = Some([cloud_id |-> CloudId, meters |-> meters',
                                     devices |-> devices'])
               ELSE /\ reported' = "UpdateFailed"
                    /\ coordinator_data' = coordinator_data]_vars

C12_Witness ==
    /\ phase = "polled"
    /\ reported = "UpdateFailed"
    /\ result = "CancelledError"
    /\ coordinator_data # None
    /\ DOMAIN coordinator_data[1].meters # {}

\* Some component of the meter holds a variable of that name.
Holds(m, name) ==
    \E i \in 1..Len(components(m)) :
        \E j \in 1..Len(components(m)[i].Variables) :
            components(m)[i].Variables[j].Name = name

LookupNames == VarNames \cup {"nonexistent"}

\* C13: for every meter and every name, get_variable(name) returns a variable
\* of that name held by a component of the meter exactly when there is one,
\* and otherwise raises the not-found error (KeyError) naming the requested
\* name and the meter's address; it never returns a null or a default.
C13_GetVariableOrKeyError ==
    \A k \in DOMAIN meters : \A name \in LookupNames :
        LET m == meters[k]
            got == ElectricityMeter_get_variable(m, name)
        IN IF Holds(m, name)
           THEN /\ got.raises = "none"
                /\ got.returns.Name = name
                /\ \E i \in 1..Len(components(m)) :
                      \E j \in 1..Len(components(m)[i].Variables) :
                          components(m)[i].Variables[j] = got.returns
           ELSE got = [raises |-> "KeyError", key |-> name, meter |-> hardware_address(m)]

C13_Witness ==
    \E k \in DOMAIN meters :
        /\ Holds(meters[k], VarDemand)
        /\ ~Holds(meters[k], VarDelivered)
        /\ ElectricityMeter_get_variable(meters[k], VarDemand).raises = "none"
        /\ ElectricityMeter_get_variable(meters[k], VarDelivered).raises = "KeyError"
        /\ ElectricityMeter_get_variable(meters[k], "nonexistent").key = "nonexistent"

\* C14: no operation of the hub, failing or not, removes a key of the device
\* table (a list that no longer names a device included); the set of keys
\* changes only in the query of a cycle for a listed address the table does
\* not hold, which adds that address: re-querying a known address, in a
\* cycle or by refresh_device, leaves the set of keys as it is.
C14_DeviceKeysOnlyGrow ==
    [][/\ DOMAIN devices \subseteq DOMAIN devices'
       /\ DOMAIN devices' # DOMAIN devices =>
             /\ pc = "loop"
             /\ cycleList[idx].HardwareAddress \notin DOMAIN devices
             /\ DOMAIN devices' = DOMAIN devices \cup {cycleList[idx].HardwareAddress}]_vars

C14_Witness ==
    /\ pc = "idle"
    /\ result = "TimeoutError"
    /\ idx = 1
    /\ unqueried = 0
    /\ DOMAIN devices = Addrs

\* The coercion as the cascade is described: a boolean word gives the
\* boolean it names, a decimal integer the integer, a decimal fraction the
\* float, anything else stays text, and None stays None.
Coerced(raw) ==
    IF raw = None THEN [t |-> "none"]
    ELSE LET s == raw[1] IN
         IF Lower(s) = <<"t", "r", "u", "e">> THEN [t |-> "bool", b |-> TRUE]
         ELSE IF Lower(s) = <<"f", "a", "l", "s", "e">> THEN [t |-> "bool", b |-> FALSE]
         ELSE IF IsInt(s, 10) THEN [t |-> "int", i |-> ParseInt(s, 10)]
         ELSE IF IsFloat(s) THEN [t |-> "float", f |-> s]
         ELSE [t |-> "str", s |-> s]

\* C15: the Value of every variable the hub stores from a response is the
\* raw value coerced by the cascade bool, int, float, string: "true" and
\* "false" in any case give True and False, "42" gives 42, other text is
\* unchanged, None stays None.
C15_CoercionCascade ==
    [][pc = "loop" =>
          \A raw \in {r \in QueryResponsesFor(cycleList[idx]) : query_raises("ok", r) = "none"} :
              QueryStep("ok", raw) =>
                  LET stored == devices'[cycleList[idx].HardwareAddress].Components
                  IN \A i \in 1..Len(stored) : \A j \in 1..Len(stored[i].Variables) :
                        stored[i].Variables[j].Value
                            = Coerced(raw.Components[i].Variables[j].Value)]_vars

\* C16: when a refresh cycle over d1..dn fails or is abandoned at the query
\* for d(k+1), that step changes neither table, so what the cycle wrote for
\* d1..dk stays (after a cycle begun on empty tables: exactly the records
\* and meters of d1..dk); every step of a cycle touches the entries of its
\* own device only, so those of d(k+1)..dn keep their values from before.
C16_PartialWritesStay ==
    [][pc = "loop" =>
          /\ (pc' = "idle" /\ result' # "none") => (devices' = devices /\ meters' = meters)
          /\ \A a \in Addrs \ {cycleList[idx].HardwareAddress} :
                /\ (a \in DOMAIN devices') = (a \in DOMAIN devices)
                /\ a \in DOMAIN devices => devices'[a] = devices[a]
                /\ (a \in DOMAIN meters') = (a \in DOMAIN meters)
                /\ a \in DOMAIN meters => meters'[a] = meters[a]
          /\ (startedEmpty /\ pc' = "idle" /\ result' # "none") =>
                /\ DOMAIN devices' = {cycleList[i].HardwareAddress : i \in 1..(idx - 1)}
                /\ DOMAIN meters' = ListMeters(SubSeq(cycleList, 1, idx - 1))
                /\ \A i \in 1..(idx - 1) :
                      devices'[cycleList[i].HardwareAddress] = QueryResults[resps[i]][1]]_vars

C16_Witness ==
    /\ pc = "idle"
    /\ result = "CancelledError"
    /\ idx = 2
    /\ Cardinality(DOMAIN devices) = 1
    /\ DOMAIN meters = DOMAIN devices

\* The names of the components of a list and of their variables, in order.
ComponentNames(cs) ==
    [i \in 1..Len(cs) |->
        [Name |-> cs[i].Name,
         Variables |-> [j \in 1..Len(cs[i].Variables) |-> cs[i].Variables[j].Name]]]

\* The documents the gateway may answer a query about `device` with that
\* are about that device.
ResponsesAbout(device) ==
    {r \in QueryResponsesFor(device) :
        r.DeviceDetails.HardwareAddress = device.HardwareAddress}

\* C17: whenever the gateway answers the query of a refresh (in a cycle, or
\* a refresh of the one device) for a registered meter, the components seen
\* through the meter afterwards are those of that response and no others:
\* none when the response has an empty component list.
C17_ComponentsReplacedWholesale ==
    [][/\ pc = "loop" =>
            \A raw \in ResponsesAbout(cycleList[idx]) :
                (/\ cycleList[idx].HardwareAddress \in DOMAIN meters'
                 /\ QueryStep("ok", raw))
                    => ComponentNames(devices'[meters'[cycleList[idx].HardwareAddress].address].Components)
                         = ComponentNames(raw.Components)
       /\ pc = "idle" =>
            \A a \in DOMAIN meters : \A raw \in ResponsesAbout(devices[a]) :
                RefreshDevice(a, "ok", raw)
                    => ComponentNames(devices'[meters'[a].address].Components)
                         = ComponentNames(raw.Components)]_vars

\* The same for the responses that carry at least one component.
NonEmptyComponentsReplaced ==
    [][/\ pc = "loop" =>
            \A raw \in {r \in ResponsesAbout(cycleList[idx]) : r.Components # <<>>} :
                (/\ cycleList[idx].HardwareAddress \in DOMAIN meters'
                 /\ QueryStep("ok", raw))
                    => ComponentNames(devices'[meters'[cycleList[idx].HardwareAddress].address].Components)
                         = ComponentNames(raw.Components)
       /\ pc = "idle" =>
            \A a \in DOMAIN meters : \A raw \in {r \in ResponsesAbout(devices[a]) : r.Components # <<>>} :
                RefreshDevice(a, "ok", raw)
                    => ComponentNames(devices'[meters'[a].address].Components)
                         = ComponentNames(raw.Components)]_vars

\* C18: every record of the device table is stored under its own address,
\* whatever address the gateway's query responses carry.
C18_StoredUnderOwnAddress ==
    \A k \in DOMAIN devices : devices[k].HardwareAddress = k

\* C19: every key of the meter table refers to a record of the device table
\* whose ModelId is "electric_meter", also after cycles whose device list or
\* query response gives the address another ModelId.
C19_MetersAreElectricMeters ==
    \A k \in DOMAIN meters :
        /\ k \in DOMAIN devices
        /\ meter_device(meters[k]).ModelId = "electric_meter"

====
